---- MODULE Spec2Model ----
(***************************************************************************)
(* Model of the MyPlaceIQ integration's synchronization engine:            *)
(*   myplaceiq.py    MyPlaceIQ.send_command          (command transport)   *)
(*   coordinator.py  _async_update_data              (poller and cache)    *)
(*   climate.py      MyPlaceIQClimate                (optimistic mutator   *)
(*                                                    and derivation)      *)
(* Python dicts are functions whose domain is the set of keys present, so  *)
(* a missing key is a key outside DOMAIN.  Every task is a coroutine on    *)
(* one event loop: an action is the code between two suspension points.    *)
(***************************************************************************)
EXTENDS Integers, Sequences, FiniteSets, TLC

VARIABLES
    call,               \* per task: the frame of its send_command call
    op,                 \* per climate entity: its control operation
    poll,               \* the coordinator's refresh task
    heap,               \* the response dicts alive, by object reference
    data,               \* coordinator.data (a reference, NoRef for None)
    lastValid,          \* coordinator._last_valid_data (a reference)
    lastUpdateSuccess,  \* coordinator.last_update_success
    refreshRequested,   \* a refresh asked by async_request_refresh, not started
    setupDone,          \* async_setup_entry has added the climate entities
    lk,                 \* per climate entity, and for the aircon's state
                        \* sensor: _last_known_is_on
    opsLeft, pollsLeft, faultsLeft, cancelsLeft   \* what is left of each bound

vars == <<call, op, poll, heap, data, lastValid, lastUpdateSuccess,
          refreshRequested, setupDone, lk,
          opsLeft, pollsLeft, faultsLeft, cancelsLeft>>

----------------------------------------------------------------------------
(* Bounds of the model *)

MaxOps == 2
MaxPolls == 2
MaxFaults == 3
MaxCancels == 1
MaxCalls == 2

(* Program constants *)

max_retries == 3
_attr_min_temp == 16
_attr_max_temp == 30

----------------------------------------------------------------------------
(* Python dicts *)

EmptyDict == [k \in {} |-> TRUE]
Has(d, k) == k \in DOMAIN d
Get(d, k, default) == IF k \in DOMAIN d THEN d[k] ELSE default
Put(d, k, v) == [x \in (DOMAIN d) \cup {k} |-> IF x = k THEN v ELSE d[x]]

(* json.dumps / json.loads: a serialized text is either the text of a JSON *)
(* value or text that is no JSON at all.                                   *)
JsonDumps(v) == [json |-> v]
NotJson == [raw |-> "garbage"]
IsJsonText(s) == "json" \in DOMAIN s
JsonLoads(s) == s.json

----------------------------------------------------------------------------
(* Entities and tasks.  One aircon with one visible zone in its zoneOrder; *)
(* each climate entity runs its control operations as its own task, and    *)
(* the coordinator's refresh is a third task.                              *)

AirconId == "a1"
ZoneId == "z1"
Entities == {AirconId, ZoneId}
PollTask == "poll"

(* The aircon's on/off state sensor, MyPlaceIQAirconStateSensor: a         *)
(* listener of the coordinator like the climate entities                   *)
StateSensor == "a1_state"
Sensors == {StateSensor}
Tasks == {PollTask} \cup Entities

----------------------------------------------------------------------------
(* Command transport: MyPlaceIQ.send_command *)

NoRef == 0
NoCommand == [commands |-> <<>>]
NoCause == [attempt |-> 0, err |-> "None"]
NoResponse == [isDict |-> FALSE, items |-> EmptyDict]
NoResult == [kind |-> "none", err |-> "None", cause |-> NoCause, value |-> NoResponse]

(* {"status": "sent"}, line 38 *)
Ack == [isDict |-> TRUE, items |-> [status |-> "sent"]]

RetryableAndValueError ==
    {"ClientError", "WSMessageTypeError", "TimeoutError", "ValueError"}

(* The exceptions of line 44, and what else the awaits can raise *)
Retryable == {"ClientError", "WSMessageTypeError", "TimeoutError"}
ConnectErrors == {"ClientError", "TimeoutError"}
SendErrors == {"ClientError"}
ReceiveErrors == {"TimeoutError", "WSMessageTypeError", "ValueError"}

(* The wire message of line 22 (the uuid is not modelled) *)
Message(command) == [body |-> JsonDumps(command)]

IdleCall ==
    [pc |-> "idle", attempt |-> 0, nSess |-> 0, nWs |-> 0,
     command |-> NoCommand, await_response |-> FALSE,
     err |-> "None", wire |-> <<>>, result |-> NoResult]

(* One iteration of the loop up to its first suspension: the session is    *)
(* created and the coroutine waits in ws_connect.                          *)
BeginAttempt(c) ==
    [c EXCEPT !.attempt = @ + 1, !.nSess = @ + 1, !.pc = "connect"]

(* send_command entered: runs to the first suspension of attempt 1 *)
NewCall(command, aw) ==
    BeginAttempt([IdleCall EXCEPT !.command = command, !.await_response = aw])

(* Leaving the async with block closes the websocket *)
CloseWs(c) == [c EXCEPT !.nWs = IF @ > 0 THEN @ - 1 ELSE @]

FinallyWithoutSession(c) == CloseWs(c)

(* The finally clause: close the websocket if open, then the session *)
Finally(c) ==
    [c EXCEPT !.nWs = IF @ > 0 THEN @ - 1 ELSE @,
              !.nSess = IF @ > 0 THEN @ - 1 ELSE @]

RetryOnceMore(attempt) == attempt <= max_retries

RetryAlways(attempt) == TRUE

(* attempt < max_retries, line 47 *)
ShouldRetry(attempt) == attempt < max_retries

(* An exception e raised by an await of the attempt: the except clause for *)
(* the retryable ones (sleep with err bound to e, or raise                 *)
(* HomeAssistantError from e), the finally clause on the way out for       *)
(* everything that propagates.                                             *)
Raise(c, e) ==
    LET logged == CloseWs(c)
    IN  IF e \in Retryable
        THEN IF ShouldRetry(c.attempt)
             THEN [logged EXCEPT !.pc = "backoff", !.err = e]
             ELSE Finally([logged EXCEPT
                      !.pc = "raised",
                      !.result = [kind |-> "error", err |-> "HomeAssistantError",
                                  cause |-> [attempt |-> c.attempt, err |-> e],
                                  value |-> NoResponse]])
        ELSE Finally([logged EXCEPT
                      !.pc = "raised",
                      !.result = [kind |-> "error", err |-> e,
                                  cause |-> NoCause, value |-> NoResponse]])

ReturnWaitsForReply(c, r) ==
    IF r = Ack
    THEN [c EXCEPT !.pc = "recv"]
    ELSE Finally([c EXCEPT
            !.pc = "returned",
            !.result = [kind |-> "return", err |-> "None", cause |-> NoCause,
                        value |-> r]])

(* return r from inside the async with block *)
Return(c, r) ==
    Finally([c EXCEPT
        !.pc = "returned",
        !.result = [kind |-> "return", err |-> "None", cause |-> NoCause,
                    value |-> r]])

(* asyncio.sleep(1) is over: continue runs the finally clause, then the    *)
(* next iteration; line 61 when the loop is exhausted.                     *)
AfterBackoff(c) ==
    IF c.attempt < max_retries
    THEN BeginAttempt(Finally([c EXCEPT !.err = "None"]))
    ELSE Finally([c EXCEPT
            !.err = "None",
            !.pc = "raised",
            !.result = [kind |-> "error", err |-> "HomeAssistantError",
                        cause |-> NoCause, value |-> NoResponse]])

(* The task is cancelled while suspended: CancelledError is raised at the  *)
(* await, no except clause matches it, the finally clause runs.            *)
Cancelled(c) ==
    Finally([CloseWs(c) EXCEPT
        !.pc = "raised",
        !.err = "None",
        !.result = [kind |-> "error", err |-> "CancelledError",
                    cause |-> NoCause, value |-> NoResponse]])

Suspended(c) == c.pc \in {"connect", "send", "recv", "backoff"}
Over(c) == c.pc \in {"returned", "raised"}

----------------------------------------------------------------------------
(* What the hub can answer to GetFullDataEvent.  A response is the value   *)
(* receive_json returns: a dict (its items) or some other JSON value.      *)

Aircon(items) ==
    items @@ [targetTemperatureHeat |-> 22, targetTemperatureCool |-> 24]
Zone(items) ==
    items @@ [targetTemperatureHeat |-> 20, targetTemperatureCool |-> 26]
Body(aircon, zone) ==
    [aircons |-> [a1 |-> Aircon(aircon)], zones |-> [z1 |-> Zone(zone)]]

FullBodies ==
    { Body([isOn |-> TRUE, mode |-> "heat"], [isOn |-> TRUE]),
      Body([isOn |-> FALSE, mode |-> "cool"], [isOn |-> TRUE]),
      Body([isOn |-> FALSE, mode |-> "heat"], [isOn |-> FALSE]),
      Body([mode |-> "dry"], EmptyDict),
      Body([isOn |-> TRUE], [isOn |-> FALSE]) }

IncompleteBodies ==
    { [aircons |-> [a1 |-> Aircon([isOn |-> TRUE, mode |-> "heat"])]],
      [aircons |-> EmptyDict, zones |-> [z1 |-> Zone([isOn |-> TRUE])]] }

DictResponse(items) == [isDict |-> TRUE, items |-> items]

GoodResponses == { DictResponse([body |-> JsonDumps(b)]) : b \in FullBodies }

BadResponses ==
    { DictResponse([body |-> JsonDumps(b)]) : b \in IncompleteBodies }
    \cup { DictResponse([body |-> NotJson]),     \* body is no JSON text
           DictResponse(EmptyDict),              \* no "body" key
           NoResponse }                          \* not a dict

Responses == GoodResponses \cup BadResponses

----------------------------------------------------------------------------
(* Reading the cache *)

Truthy(d) == DOMAIN d # {}

(* The object a reference denotes; None reads as a value that is no dict *)
Deref(h, ref) == IF ref = NoRef THEN NoResponse ELSE h[ref]

(* not isinstance(data, dict) or not data or "body" not in data *)
NoData(d) == ~d.isDict \/ ~Truthy(d.items) \/ ~Has(d.items, "body")

IsZone(e) == e = ZoneId
AirconOf(e) == AirconId
Section(e) == IF IsZone(e) THEN "zones" ELSE "aircons"

(* The entity's record in the body, {} when absent: body.get(..., {}).get(id, {}) *)
Lookup(body, section, id) == Get(Get(body, section, EmptyDict), id, EmptyDict)

(* _last_known_is_on: None, or the boolean last stored *)
NoneLk == [known |-> FALSE, on |-> FALSE]
Known(b) == [known |-> TRUE, on |-> b]

(* MyPlaceIQClimate.target_temperature: the value, or None as has = FALSE *)
NoTemp == [has |-> FALSE, val |-> 0]
Temp(v) == [has |-> TRUE, val |-> v]
Field(rec, k) == IF Has(rec, k) THEN Temp(rec[k]) ELSE NoTemp

TargetByOwnMode(e, d) ==
    IF NoData(d) \/ ~IsJsonText(d.items.body) THEN NoTemp
    ELSE LET target == Lookup(JsonLoads(d.items.body), Section(e), e)
             mode == Get(target, IF IsZone(e) THEN "airconMode" ELSE "mode", "heat")
         IN  IF mode = "heat" THEN Field(target, "targetTemperatureHeat")
             ELSE IF mode = "cool" THEN Field(target, "targetTemperatureCool")
             ELSE NoTemp

target_temperature(e, d) ==
    IF NoData(d) \/ ~IsJsonText(d.items.body) THEN NoTemp
    ELSE LET body == JsonLoads(d.items.body)
             aircon == Lookup(body, "aircons", AirconOf(e))
             mode == Get(aircon, "mode", "heat")
             target == Lookup(body, Section(e), e)
         IN  IF mode = "heat" THEN Field(target, "targetTemperatureHeat")
             ELSE IF mode = "cool" THEN Field(target, "targetTemperatureCool")
             ELSE NoTemp

AirconStateByModeOnly(is_on, aircon) ==
    IF Get(aircon, "mode", "missing") = "heat" THEN "heat"
    ELSE IF Get(aircon, "mode", "missing") = "cool" THEN "cool"
    ELSE IF Get(aircon, "mode", "missing") = "dry" THEN "dry"
    ELSE IF Get(aircon, "mode", "missing") = "fan" THEN "fan_only"
    ELSE "off"

(* The aircon branch of hvac_mode, lines 177-184 *)
AirconState(is_on, aircon) ==
    IF ~is_on THEN "off"
    ELSE IF Get(aircon, "mode", "missing") = "heat" THEN "heat"
    ELSE IF Get(aircon, "mode", "missing") = "cool" THEN "cool"
    ELSE IF Get(aircon, "mode", "missing") = "dry" THEN "dry"
    ELSE IF Get(aircon, "mode", "missing") = "fan" THEN "fan_only"
    ELSE "off"

HvacModeZoneFollowsAircon(e, d, l) ==
    IF NoData(d) \/ ~IsJsonText(d.items.body)
    THEN [state |-> "off", last_known |-> l]
    ELSE LET aircon == Lookup(JsonLoads(d.items.body), "aircons", AirconOf(e))
             is_on == Get(aircon, "isOn", IF l.known THEN l.on ELSE FALSE)
         IN  [state |-> IF IsZone(e)
                        THEN (IF is_on THEN "auto" ELSE "off")
                        ELSE AirconState(is_on, aircon),
              last_known |-> IF is_on THEN Known(is_on) ELSE l]

(* MyPlaceIQClimate.hvac_mode read with _last_known_is_on = l: the mode    *)
(* returned and the value of _last_known_is_on the read leaves behind.     *)
hvac_mode(e, d, l) ==
    IF NoData(d) \/ ~IsJsonText(d.items.body)
    THEN [state |-> "off", last_known |-> l]
    ELSE LET body == JsonLoads(d.items.body)
             aircon == Lookup(body, "aircons", AirconOf(e))
             is_on == Get(aircon, "isOn", IF l.known THEN l.on ELSE FALSE)
             l1 == IF is_on THEN Known(is_on) ELSE l
             zone == Lookup(body, "zones", e)
             is_zone_on == Get(zone, "isOn", FALSE)
             l2 == IF is_zone_on THEN Known(is_zone_on) ELSE l1
         IN  IF IsZone(e)
             THEN [state |-> IF ~is_zone_on THEN "off" ELSE "auto",
                   last_known |-> l2]
             ELSE [state |-> AirconState(is_on, aircon), last_known |-> l1]

(* The isOn that hvac_mode resolves for the entity itself: is_on for an    *)
(* aircon (line 165), is_zone_on for a zone (line 170)                     *)
ResolvedIsOn(e, body, l) ==
    IF IsZone(e)
    THEN Get(Lookup(body, "zones", e), "isOn", FALSE)
    ELSE Get(Lookup(body, "aircons", e), "isOn",
             IF l.known THEN l.on ELSE FALSE)

(* async_write_ha_state of entity e: the state machine reads the entity's  *)
(* properties, hvac_mode among them, when the entity is available          *)
WriteState(e, d, l, available) ==
    IF available THEN hvac_mode(e, d, l).last_known ELSE l

(* sensor.py as it stands does not compile (commas are missing in          *)
(* MyPlaceIQZoneSensor.extra_state_attributes, line 258); the state sensor *)
(* is modelled as its class is written.                                    *)
(* MyPlaceIQAirconStateSensor.state read with _last_known_is_on = l: the   *)
(* state returned and the value of _last_known_is_on the read leaves       *)
(* behind.                                                                 *)
state(d, l) ==
    IF NoData(d) \/ ~IsJsonText(d.items.body)
    THEN [state |-> "None", last_known |-> l]
    ELSE LET body == JsonLoads(d.items.body)
             aircon == Lookup(body, "aircons", AirconId)
             is_on == Get(aircon, "isOn", IF l.known THEN l.on ELSE FALSE)
         IN  [state |-> IF is_on THEN "on" ELSE "off",
              last_known |-> IF is_on THEN Known(is_on) ELSE l]

(* async_write_ha_state of the sensor: state is read when it is available *)
SensorWriteState(d, l, available) ==
    IF available THEN state(d, l).last_known ELSE l

----------------------------------------------------------------------------
(* Poller: MyPlaceIQDataUpdateCoordinator._async_update_data *)

Refs == {1, 2}
EmptyHeap == [r \in Refs |-> NoResponse]

GetFullDataEvent == [commands |-> <<[type |-> "GetFullDataEvent"]>>]

FetchedWithoutShapeCheck(res) ==
    IF res.kind = "error" THEN "exception"
    ELSE IF ~res.value.isDict \/ ~Has(res.value.items, "body") THEN "exception"
    ELSE IF ~IsJsonText(res.value.items.body) THEN "exception"
    ELSE "valid"

(* How far the try block gets with the result of send_command: "valid",    *)
(* "incomplete" (line 47), or "exception" (anything raised inside it).     *)
Fetched(res) ==
    IF res.kind = "error" THEN "exception"
    ELSE IF ~res.value.isDict \/ ~Has(res.value.items, "body") THEN "exception"
    ELSE IF ~IsJsonText(res.value.items.body) THEN "exception"
    ELSE LET body == JsonLoads(res.value.items.body)
         IN  IF \/ ~Truthy(Get(body, "aircons", EmptyDict))
                \/ ~Truthy(Get(body, "zones", EmptyDict))
             THEN "incomplete"
             ELSE "valid"

UpdateWithoutFallback(res, lastValidTruthy) ==
    IF Fetched(res) = "valid" THEN "fresh" ELSE "failed"

UpdateFallsBackOnIncompleteOnly(res, lastValidTruthy) ==
    IF Fetched(res) = "valid" THEN "fresh"
    ELSE IF Fetched(res) = "incomplete" /\ lastValidTruthy THEN "cached"
    ELSE "failed"

UpdateKeepsCache(res, lastValidTruthy) ==
    IF lastValidTruthy THEN "cached"
    ELSE IF Fetched(res) = "valid" THEN "fresh"
    ELSE "failed"

(* What the cycle does with it: "fresh" (lines 62-64), "cached" (lines     *)
(* 49-51 and 67-69), "failed" (UpdateFailed leaves the method).            *)
UpdateOutcome(res, lastValidTruthy) ==
    IF Fetched(res) = "valid" THEN "fresh"
    ELSE IF lastValidTruthy THEN "cached"
    ELSE "failed"

(* response["body"] = json.dumps(body) *)
Redumped(response) ==
    [response EXCEPT !.items.body = JsonDumps(JsonLoads(response.items.body))]

StoreFreshKeepsACopy(response) ==
    [heap |-> [EmptyHeap EXCEPT ![1] = Redumped(response),
                                ![2] = Redumped(response)],
     data |-> 1, lastValid |-> 2]

StoreFreshForgetsLastValid(response) ==
    [heap |-> [EmptyHeap EXCEPT ![1] = Redumped(response)],
     data |-> 1, lastValid |-> NoRef]

(* self._last_valid_data = response; return response; the coordinator      *)
(* stores the returned object in self.data.  The objects held before are   *)
(* garbage, so the new one takes the first reference.                      *)
StoreFresh(response) ==
    [heap |-> [EmptyHeap EXCEPT ![1] = Redumped(response)],
     data |-> 1, lastValid |-> 1]

StoreCachedKeepsData(h, lv) ==
    [heap |-> h, data |-> NoRef, lastValid |-> lv]

(* return self._last_valid_data: the same object, stored in self.data *)
StoreCached(h, lv) ==
    [heap |-> h, data |-> lv, lastValid |-> lv]

(* The refresh task: where it is, and how its last finished cycle ended:   *)
(* "fresh", "cached" or "failed" (see UpdateOutcome).                      *)
IdlePoll == [pc |-> "idle", ret |-> "none"]

(* The scheduled refresh, or the one async_request_refresh asked for,      *)
(* starts: _async_update_data runs into send_command's first suspension.   *)
PollStart ==
    /\ poll.pc = "idle"
    /\ pollsLeft > 0
    /\ pollsLeft' = pollsLeft - 1
    /\ poll' = [poll EXCEPT !.pc = "fetch"]
    /\ call' = [call EXCEPT ![PollTask] = NewCall(GetFullDataEvent, TRUE)]
    /\ refreshRequested' = FALSE
    /\ UNCHANGED <<op, heap, data, lastValid, lastUpdateSuccess, setupDone, lk,
                   opsLeft, faultsLeft, cancelsLeft>>

(* async_write_ha_state of every climate entity and of the sensor, once    *)
(* they are added                                                          *)
UpdateListeners(d) ==
    [e \in Entities \cup Sensors |->
        IF ~setupDone THEN lk[e]
        ELSE IF e \in Sensors THEN SensorWriteState(d, lk[e], TRUE)
        ELSE WriteState(e, d, lk[e], TRUE)]

(* send_command is over: the rest of _async_update_data, and what          *)
(* DataUpdateCoordinator does with its outcome (data, last_update_success, *)
(* the listeners' state writes).                                           *)
PollFinish ==
    /\ poll.pc = "fetch"
    /\ Over(call[PollTask])
    /\ LET res == call[PollTask].result
           lvTruthy == lastValid # NoRef /\ Truthy(heap[lastValid].items)
           outcome == UpdateOutcome(res, lvTruthy)
           st == IF outcome = "fresh" THEN StoreFresh(res.value)
                 ELSE StoreCached(heap, lastValid)
       IN  /\ poll' = [pc |-> "idle", ret |-> outcome]
           /\ IF outcome = "failed"
              THEN /\ lastUpdateSuccess' = FALSE
                   /\ UNCHANGED <<heap, data, lastValid, lk>>
              ELSE /\ heap' = st.heap
                   /\ data' = st.data
                   /\ lastValid' = st.lastValid
                   /\ lastUpdateSuccess' = TRUE
                   /\ lk' = UpdateListeners(Deref(st.heap, st.data))
    /\ call' = [call EXCEPT ![PollTask] = IdleCall]
    /\ UNCHANGED <<op, refreshRequested, setupDone,
                   opsLeft, pollsLeft, faultsLeft, cancelsLeft>>

(* climate.async_setup_entry, and sensor.async_setup_entry with it: the    *)
(* entities are created from the cached snapshot, once it is there, and    *)
(* their first state is written.                                           *)
SetupEntry ==
    /\ ~setupDone
    /\ ~NoData(Deref(heap, data))
    /\ IsJsonText(heap[data].items.body)
    /\ setupDone' = TRUE
    /\ lk' = [e \in Entities \cup Sensors |->
                IF e \in Sensors
                THEN SensorWriteState(heap[data], NoneLk, lastUpdateSuccess)
                ELSE WriteState(e, heap[data], NoneLk, lastUpdateSuccess)]
    /\ UNCHANGED <<call, op, poll, heap, data, lastValid, lastUpdateSuccess,
                   refreshRequested, opsLeft, pollsLeft, faultsLeft, cancelsLeft>>

----------------------------------------------------------------------------
(* Optimistic mutator: MyPlaceIQClimate.async_set_temperature and          *)
(* async_set_hvac_mode                                                     *)

(* Temperatures arrive as floats; they are counted here in half degrees,   *)
(* so that int() has something to truncate.                                *)
TempInputs == {44, 45, 62}
Kwargs == {EmptyDict} \cup { [temperature |-> t] : t \in TempInputs }
int(t) == t \div 2

HVACModes == {"off", "heat", "cool", "dry", "fan_only", "auto"}

(* _attr_hvac_modes of an aircon entity and of a zone entity, lines 89-92 *)
AirconModes == {"heat", "cool", "dry", "fan_only", "off"}
ZoneModes == {"auto", "off"}

(* An operation of a climate entity: where its coroutine is, which method  *)
(* it runs with which argument, how it ended (ret) once it has, and the    *)
(* argument of the operation the entity ran before it (prev).              *)
NoArg == [none |-> TRUE]
IdleOp ==
    [pc |-> "idle", kind |-> "none", arg |-> NoArg, ret |-> "none",
     prev |-> NoArg]

(* lines 207-217 *)
TemperatureCommand(e, mode, temperature) ==
    [commands |-> <<
        IF IsZone(e)
        THEN [type |-> IF mode = "heat" THEN "SetZoneHeatTemperature"
                       ELSE "SetZoneCoolTemperature",
              zoneId |-> e, temperature |-> int(temperature)]
        ELSE [type |-> IF mode = "heat" THEN "SetAirconHeatTemperature"
                       ELSE "SetAirconCoolTemperature",
              airconId |-> e, temperature |-> int(temperature)] >>]

TemperaturePatchFreshRecord(e, body, mode, temperature) ==
    LET patched == IF mode = "heat"
                   THEN [targetTemperatureHeat |-> int(temperature)]
                   ELSE IF mode = "cool"
                   THEN [targetTemperatureCool |-> int(temperature)]
                   ELSE EmptyDict
    IN  Put(body, Section(e), Put(body[Section(e)], e, patched))

TemperaturePatchHeatOnly(e, body, mode, temperature) ==
    LET target == Lookup(body, Section(e), e)
        patched == Put(target, "targetTemperatureHeat", int(temperature))
    IN  Put(body, Section(e), Put(body[Section(e)], e, patched))

(* lines 220-228: the body with the entity's setpoint patched *)
TemperaturePatch(e, body, mode, temperature) ==
    LET target == Lookup(body, Section(e), e)
        patched == IF mode = "heat"
                   THEN Put(target, "targetTemperatureHeat", int(temperature))
                   ELSE IF mode = "cool"
                   THEN Put(target, "targetTemperatureCool", int(temperature))
                   ELSE target
    IN  Put(body, Section(e), Put(body[Section(e)], e, patched))

(* "heat" if HEAT else "cool" if COOL else "dry" if DRY else "fan" *)
WireMode(hvac) ==
    IF hvac = "heat" THEN "heat"
    ELSE IF hvac = "cool" THEN "cool"
    ELSE IF hvac = "dry" THEN "dry"
    ELSE "fan"

(* lines 250-257 and 264-289 *)
HvacCommand(e, hvac) ==
    IF IsZone(e)
    THEN [commands |-> <<[type |-> "SetZoneOpenClose", zoneId |-> e,
                          isOpen |-> (hvac = "auto")]>>]
    ELSE IF hvac = "off"
    THEN [commands |-> <<[type |-> "SetAirconOnOff", airconId |-> e,
                          isOn |-> FALSE]>>]
    ELSE [commands |-> <<[type |-> "SetAirconOnOff", airconId |-> e,
                          isOn |-> TRUE],
                         [type |-> "SetAirconMode", airconId |-> e,
                          mode |-> WireMode(hvac)]>>]

HvacPatchToggles(e, body, hvac) ==
    LET rec == Lookup(body, Section(e), e)
    IN  Put(body, Section(e),
            Put(body[Section(e)], e, Put(rec, "isOn", ~Get(rec, "isOn", FALSE))))

(* lines 258-261 and 290-301: the body with the entity's record patched *)
HvacPatch(e, body, hvac) ==
    IF IsZone(e)
    THEN LET zone == Lookup(body, "zones", e)
         IN  Put(body, "zones",
                 Put(body["zones"], e, Put(zone, "isOn", hvac = "auto")))
    ELSE LET aircon == Lookup(body, "aircons", e)
             on == Put(aircon, "isOn", hvac # "off")
             moded == IF hvac # "off" THEN Put(on, "mode", WireMode(hvac)) ELSE on
         IN  Put(body, "aircons", Put(body["aircons"], e, moded))

HvacLastKnownUntouched(e, hvac) == lk[e]

(* lines 262 and 293: self._last_known_is_on = ... *)
HvacLastKnown(e, hvac) ==
    IF IsZone(e) THEN Known(hvac = "auto") ELSE Known(hvac # "off")

ZoneRejectsOffOnly(hvac) == hvac = "off"

(* if hvac_mode not in [HVACMode.AUTO, HVACMode.OFF], line 245 *)
ZoneRejects(hvac) == hvac \notin {"auto", "off"}

(* The tail both operations share: the patched body is written into the    *)
(* cached response, the entity's state is written, send_command is         *)
(* entered and runs to its first suspension.                               *)
PublishAndSend(e, kind, arg, newBody, command, l) ==
    LET h == [heap EXCEPT ![data].items.body = JsonDumps(newBody)]
    IN  /\ heap' = h
        /\ lk' = [lk EXCEPT ![e] = WriteState(e, h[data], l, lastUpdateSuccess)]
        /\ call' = [call EXCEPT ![e] = NewCall(command, FALSE)]
        /\ op' = [op EXCEPT ![e] = [pc |-> "sending", kind |-> kind,
                                    arg |-> arg, ret |-> "none",
                                    prev |-> op[e].arg]]

ReturnEarlyRaises(e, kind, arg, ret) ==
    /\ op' = [op EXCEPT ![e] = [pc |-> "idle", kind |-> kind, arg |-> arg,
                                ret |-> "TypeError", prev |-> op[e].arg]]
    /\ UNCHANGED <<heap, lk, call>>

(* An operation that returns or raises before it has changed anything *)
ReturnEarly(e, kind, arg, ret) ==
    /\ op' = [op EXCEPT ![e] = [pc |-> "idle", kind |-> kind,
                                arg |-> arg, ret |-> ret,
                                prev |-> op[e].arg]]
    /\ UNCHANGED <<heap, lk, call>>

async_set_temperature(e, kwargs) ==
    /\ setupDone
    /\ op[e].pc = "idle"
    /\ opsLeft > 0
    /\ opsLeft' = opsLeft - 1
    /\ IF ~Has(kwargs, "temperature") \/ NoData(Deref(heap, data))
       THEN ReturnEarly(e, "set_temperature", kwargs, "None")
       ELSE LET body == JsonLoads(heap[data].items.body)
                aircon == Lookup(body, "aircons", AirconOf(e))
                mode == Get(aircon, "mode", "heat")
            IN  IF ~Has(body, Section(e))
                THEN ReturnEarly(e, "set_temperature", kwargs, "KeyError")
                ELSE PublishAndSend(e, "set_temperature", kwargs,
                        TemperaturePatch(e, body, mode, kwargs.temperature),
                        TemperatureCommand(e, mode, kwargs.temperature),
                        lk[e])
    /\ UNCHANGED <<poll, data, lastValid, lastUpdateSuccess, refreshRequested,
                   setupDone, pollsLeft, faultsLeft, cancelsLeft>>

async_set_hvac_mode(e, hvac) ==
    /\ setupDone
    /\ op[e].pc = "idle"
    /\ opsLeft > 0
    /\ opsLeft' = opsLeft - 1
    /\ IF NoData(Deref(heap, data))
       THEN ReturnEarly(e, "set_hvac_mode", [hvac_mode |-> hvac], "None")
       ELSE LET body == JsonLoads(heap[data].items.body)
            IN  IF IsZone(e) /\ ZoneRejects(hvac)
                THEN ReturnEarly(e, "set_hvac_mode", [hvac_mode |-> hvac], "None")
                ELSE IF ~Has(body, Section(e))
                THEN ReturnEarly(e, "set_hvac_mode", [hvac_mode |-> hvac],
                                 "KeyError")
                ELSE PublishAndSend(e, "set_hvac_mode", [hvac_mode |-> hvac],
                        HvacPatch(e, body, hvac),
                        HvacCommand(e, hvac),
                        HvacLastKnown(e, hvac))
    /\ UNCHANGED <<poll, data, lastValid, lastUpdateSuccess, refreshRequested,
                   setupDone, pollsLeft, faultsLeft, cancelsLeft>>

AfterSendAlwaysSettles(o, c) == [o EXCEPT !.pc = "settle"]

(* What leaves the operation when send_command is over *)
AfterSend(o, c) ==
    IF c.pc = "returned"
    THEN [o EXCEPT !.pc = "settle"]
    ELSE [o EXCEPT !.pc = "idle", !.ret = c.result.err]

(* send_command is over: asyncio.sleep(2) when it returned; the exception  *)
(* leaves the operation when it raised.                                    *)
OpAfterSend(e) ==
    /\ op[e].pc = "sending"
    /\ Over(call[e])
    /\ op' = [op EXCEPT ![e] = AfterSend(@, call[e])]
    /\ call' = [call EXCEPT ![e] = IF @.pc = "returned" THEN @ ELSE IdleCall]
    /\ UNCHANGED <<poll, heap, data, lastValid, lastUpdateSuccess,
                   refreshRequested, setupDone, lk,
                   opsLeft, pollsLeft, faultsLeft, cancelsLeft>>

(* The settle delay is over: coordinator.async_request_refresh(), and the  *)
(* operation returns None.                                                 *)
OpRefresh(e) ==
    /\ op[e].pc = "settle"
    /\ op' = [op EXCEPT ![e] = [@ EXCEPT !.pc = "idle", !.ret = "None"]]
    /\ refreshRequested' = TRUE
    /\ call' = [call EXCEPT ![e] = IdleCall]
    /\ UNCHANGED <<poll, heap, data, lastValid, lastUpdateSuccess,
                   setupDone, lk, opsLeft, pollsLeft, faultsLeft, cancelsLeft>>

----------------------------------------------------------------------------
(* The steps of send_command between its suspension points, for the task   *)
(* t that runs it                                                          *)

Fault(t, e) ==
    /\ faultsLeft > 0
    /\ faultsLeft' = faultsLeft - 1
    /\ call' = [call EXCEPT ![t] = Raise(@, e)]

(* session.ws_connect(...) completes, or raises *)
Connect(t) ==
    /\ call[t].pc = "connect"
    /\ \/ /\ call' = [call EXCEPT ![t] = [@ EXCEPT !.nWs = @ + 1, !.pc = "send"]]
          /\ UNCHANGED faultsLeft
       \/ \E e \in ConnectErrors : Fault(t, e)
    /\ UNCHANGED <<op, poll, heap, data, lastValid, lastUpdateSuccess,
                   refreshRequested, setupDone, lk,
                   opsLeft, pollsLeft, cancelsLeft>>

(* ws.send_json(message) completes (the hub has the message), or raises *)
SendJson(t) ==
    /\ call[t].pc = "send"
    /\ \/ /\ LET sent == [call[t] EXCEPT
                            !.wire = Append(@, Message(call[t].command))]
             IN  call' = [call EXCEPT ![t] =
                            IF ~sent.await_response
                            THEN Return(sent, Ack)
                            ELSE [sent EXCEPT !.pc = "recv"]]
          /\ UNCHANGED faultsLeft
       \/ \E e \in SendErrors : Fault(t, e)
    /\ UNCHANGED <<op, poll, heap, data, lastValid, lastUpdateSuccess,
                   refreshRequested, setupDone, lk,
                   opsLeft, pollsLeft, cancelsLeft>>

(* ws.receive_json(timeout=10) returns the hub's reply, or raises *)
ReceiveJson(t) ==
    /\ call[t].pc = "recv"
    /\ \/ /\ \E r \in Responses : call' = [call EXCEPT ![t] = Return(@, r)]
          /\ UNCHANGED faultsLeft
       \/ \E e \in ReceiveErrors : Fault(t, e)
    /\ UNCHANGED <<op, poll, heap, data, lastValid, lastUpdateSuccess,
                   refreshRequested, setupDone, lk,
                   opsLeft, pollsLeft, cancelsLeft>>

(* asyncio.sleep(1) is over *)
Backoff(t) ==
    /\ call[t].pc = "backoff"
    /\ call' = [call EXCEPT ![t] = AfterBackoff(@)]
    /\ UNCHANGED <<op, poll, heap, data, lastValid, lastUpdateSuccess,
                   refreshRequested, setupDone, lk,
                   opsLeft, pollsLeft, faultsLeft, cancelsLeft>>

(* The task is cancelled while send_command is suspended *)
Cancel(t) ==
    /\ Suspended(call[t])
    /\ cancelsLeft > 0
    /\ cancelsLeft' = cancelsLeft - 1
    /\ call' = [call EXCEPT ![t] = Cancelled(@)]
    /\ UNCHANGED <<op, poll, heap, data, lastValid, lastUpdateSuccess,
                   refreshRequested, setupDone, lk,
                   opsLeft, pollsLeft, faultsLeft>>

----------------------------------------------------------------------------
(* The system *)

Constructed ==
    /\ call = [t \in Tasks |-> IdleCall]
    /\ op = [e \in Entities |-> IdleOp]
    /\ poll = IdlePoll
    /\ heap = EmptyHeap
    /\ data = NoRef
    /\ lastValid = NoRef
    /\ lastUpdateSuccess = TRUE
    /\ refreshRequested = FALSE
    /\ setupDone = FALSE
    /\ lk = [e \in Entities \cup Sensors |-> NoneLk]

Step ==
    \/ PollStart
    \/ PollFinish
    \/ SetupEntry
    \/ \E e \in Entities, kwargs \in Kwargs : async_set_temperature(e, kwargs)
    \/ \E e \in Entities, hvac \in HVACModes : async_set_hvac_mode(e, hvac)
    \/ \E e \in Entities : OpAfterSend(e)
    \/ \E e \in Entities : OpRefresh(e)
    \/ \E t \in Tasks : Connect(t)
    \/ \E t \in Tasks : SendJson(t)
    \/ \E t \in Tasks : ReceiveJson(t)
    \/ \E t \in Tasks : Backoff(t)

(* The poller's view: refreshes on an unreliable link, with one control    *)
(* operation in between.                                                   *)
Init ==
    /\ Constructed
    /\ opsLeft = 1
    /\ pollsLeft = MaxPolls
    /\ faultsLeft = MaxFaults
    /\ cancelsLeft = 0

Next == Step

Spec == Init /\ [][Next]_vars

(* The entities' view: control operations after the first refresh, the one *)
(* refresh there is.                                                       *)
InitOps ==
    /\ Constructed
    /\ opsLeft = MaxOps
    /\ pollsLeft = 1
    /\ faultsLeft = MaxFaults
    /\ cancelsLeft = 0

SpecOps == InitOps /\ [][Next]_vars

(* The transport alone: one caller that calls send_command again and       *)
(* again, with either value of await_response.                             *)
SendCommands == {GetFullDataEvent, HvacCommand(AirconId, "heat")}

send_command(t, command, aw) ==
    /\ call[t].pc = "idle" \/ Over(call[t])
    /\ pollsLeft > 0
    /\ pollsLeft' = pollsLeft - 1
    /\ call' = [call EXCEPT ![t] = NewCall(command, aw)]
    /\ UNCHANGED <<op, poll, heap, data, lastValid, lastUpdateSuccess,
                   refreshRequested, setupDone, lk,
                   opsLeft, faultsLeft, cancelsLeft>>

InitSend ==
    /\ Constructed
    /\ opsLeft = 0
    /\ pollsLeft = MaxCalls
    /\ faultsLeft = MaxFaults
    /\ cancelsLeft = MaxCancels

NextSend ==
    \/ \E c \in SendCommands, aw \in BOOLEAN : send_command(PollTask, c, aw)
    \/ Connect(PollTask)
    \/ SendJson(PollTask)
    \/ ReceiveJson(PollTask)
    \/ Backoff(PollTask)
    \/ Cancel(PollTask)

SpecSend == InitSend /\ [][NextSend]_vars

(* The derivation alone: an entity writes its state from whatever valid    *)
(* snapshot the hub has delivered, with whatever it has remembered.        *)
OptionalField(k, values) == {EmptyDict} \cup { Put(EmptyDict, k, v) : v \in values }
ReadAircons ==
    { Aircon(on @@ mode) :
        on \in OptionalField("isOn", BOOLEAN),
        mode \in OptionalField("mode", {"heat", "cool", "dry", "fan", "auto"}) }
ReadZones ==
    { Zone(on @@ [airconMode |-> "cool"]) : on \in OptionalField("isOn", BOOLEAN) }
ReadBodies ==
    { [aircons |-> [a1 |-> a], zones |-> [z1 |-> z]] :
        a \in ReadAircons, z \in ReadZones }
LastKnowns == {NoneLk, Known(TRUE), Known(FALSE)}

(* _handle_coordinator_update: async_write_ha_state of entity e *)
Read(e) ==
    /\ setupDone
    /\ lk' = [lk EXCEPT ![e] = WriteState(e, Deref(heap, data), @, lastUpdateSuccess)]
    /\ lk' # lk
    /\ UNCHANGED <<call, op, poll, heap, data, lastValid, lastUpdateSuccess,
                   refreshRequested, setupDone,
                   opsLeft, pollsLeft, faultsLeft, cancelsLeft>>

InitRead ==
    /\ call = [t \in Tasks |-> IdleCall]
    /\ op = [e \in Entities |-> IdleOp]
    /\ poll = [pc |-> "idle", ret |-> "fresh"]
    /\ \E b \in ReadBodies :
          heap = [EmptyHeap EXCEPT ![1] = DictResponse([body |-> JsonDumps(b)])]
    /\ data = 1
    /\ lastValid = 1
    /\ lastUpdateSuccess = TRUE
    /\ refreshRequested = FALSE
    /\ setupDone = TRUE
    /\ lk \in [Entities -> LastKnowns]
    /\ opsLeft = 0
    /\ pollsLeft = 0
    /\ faultsLeft = 0
    /\ cancelsLeft = 0

NextRead == \E e \in Entities : Read(e)

SpecRead == InitRead /\ [][NextRead]_vars

(* The poller alone, on a fair event loop: a coroutine that can go on does, *)
(* since ws_connect (timeout=5) and receive_json (timeout=10) complete or  *)
(* time out, the sleep ends, and send_json writes into a buffer.  When the *)
(* next cycle starts is the scheduler's business.                          *)
InitPoll ==
    /\ Constructed
    /\ opsLeft = 0
    /\ pollsLeft = MaxPolls
    /\ faultsLeft = MaxFaults
    /\ cancelsLeft = 0

NextPoll ==
    \/ PollStart
    \/ PollFinish
    \/ Connect(PollTask)
    \/ SendJson(PollTask)
    \/ ReceiveJson(PollTask)
    \/ Backoff(PollTask)

SpecPoll ==
    /\ InitPoll
    /\ [][NextPoll]_vars
    /\ WF_vars(Connect(PollTask))
    /\ WF_vars(SendJson(PollTask))
    /\ WF_vars(ReceiveJson(PollTask))
    /\ WF_vars(Backoff(PollTask))
    /\ WF_vars(PollFinish)

----------------------------------------------------------------------------
(* Properties *)

(* What a step did to task t's call: an await of it raised, or it went on  *)
(* undisturbed.                                                            *)
FaultStep(t) == call'[t] # call[t] /\ faultsLeft' # faultsLeft
OkStep(t) ==
    call'[t] # call[t] /\ faultsLeft' = faultsLeft /\ cancelsLeft' = cancelsLeft

(* C1: a call never makes more than 3 connection attempts; when an await   *)
(* of attempt 3 raises a retryable error the call raises                   *)
(* HomeAssistantError whose cause is that error of attempt 3; when         *)
(* attempt 3 (after two failed ones) gets through, the call returns what   *)
(* that attempt produced: the reply received, or the Ack, and raises       *)
(* nothing.                                                                *)
C1_RetryThenReplyOrRaise ==
    [][\A t \in Tasks :
        LET c == call[t]
            d == call'[t]
        IN  /\ d.attempt <= 3
            /\ (FaultStep(t) /\ c.attempt = 3 /\ d.result.err # "ValueError")
                => /\ d.pc = "raised"
                   /\ d.result.kind = "error"
                   /\ d.result.err = "HomeAssistantError"
                   /\ d.result.cause.attempt = 3
                   /\ d.result.cause.err \in Retryable
            /\ (OkStep(t) /\ c.attempt = 3 /\ c.pc = "recv")
                => /\ d.pc = "returned"
                   /\ d.result.kind = "return"
                   /\ d.result.value \in Responses
            /\ (OkStep(t) /\ c.attempt = 3 /\ c.pc = "send" /\ ~c.await_response)
                => /\ d.pc = "returned"
                   /\ d.result.kind = "return"
                   /\ d.result.value = Ack
    ]_vars

C1_Witness ==
    \E t \in Tasks :
        /\ call[t].pc = "returned"
        /\ call[t].attempt = 3
        /\ call[t].await_response
        /\ call[t].result.value \in GoodResponses

C1_WitnessRaise ==
    \E t \in Tasks :
        /\ call[t].pc = "raised"
        /\ call[t].attempt = 3
        /\ call[t].result.err = "HomeAssistantError"
        /\ call[t].result.cause = [attempt |-> 3, err |-> "TimeoutError"]

(* C2: once a call is over, however it ended (a reply or the Ack returned, *)
(* HomeAssistantError after the last attempt, an error that is not         *)
(* retried, a cancellation at connect, send, receive or during the         *)
(* backoff sleep), no session and no websocket opened by any of its        *)
(* attempts is still open.                                                 *)
C2_ClosedWhenOver ==
    \A t \in Tasks :
        Over(call[t]) => call[t].nSess = 0 /\ call[t].nWs = 0

C2_Witness ==
    \E t \in Tasks :
        /\ call[t].pc = "raised"
        /\ call[t].result.err = "CancelledError"
        /\ call[t].attempt >= 2
        /\ call[t].nSess = 0

(* The step in which a poll cycle ends, and the ways the cycle can have    *)
(* gone wrong by then: send_command raised, or returned a reply that is no *)
(* dict, has no body, a body that is no JSON, or one whose aircons or      *)
(* zones are missing or empty.                                             *)
CycleEnds == poll.pc = "fetch" /\ poll'.pc = "idle"
CycleWentWrong ==
    \/ call[PollTask].result.kind = "error"
    \/ call[PollTask].result.value \in BadResponses

(* C3: when a poll cycle that went wrong ends and a valid snapshot was     *)
(* cached, the cycle returns that snapshot (the coordinator's data is the  *)
(* last valid object, with the content it had), the update counts as a     *)
(* success and nothing in the cache changes; when none was ever cached the *)
(* cycle reports an update failure and the cache stays empty.              *)
C3_FailedCycleFallsBack ==
    [][(CycleEnds /\ CycleWentWrong) =>
        IF lastValid # NoRef
        THEN /\ poll'.ret = "cached"
             /\ data' = lastValid
             /\ lastValid' = lastValid
             /\ heap' = heap
             /\ Deref(heap', data') = Deref(heap, data)
             /\ lastUpdateSuccess'
        ELSE /\ poll'.ret = "failed"
             /\ ~lastUpdateSuccess'
             /\ data' = NoRef
             /\ lastValid' = NoRef
             /\ heap' = heap
    ]_vars

C3_Witness ==
    /\ poll = [pc |-> "idle", ret |-> "cached"]
    /\ data # NoRef
    /\ data = lastValid
    /\ heap[data] \in { Redumped(r) : r \in GoodResponses }

C3_WitnessFailed ==
    /\ poll = [pc |-> "idle", ret |-> "failed"]
    /\ data = NoRef
    /\ ~lastUpdateSuccess

(* The step in which entity e's operation, past its local checks, writes   *)
(* its patch and enters send_command; the body cached before and after it; *)
(* the mode the operation resolves for the owning aircon.                  *)
Starts(e) == op[e].pc = "idle" /\ op'[e].pc = "sending"
BodyBefore == JsonLoads(heap[data].items.body)
BodyAfter == JsonLoads(heap'[data'].items.body)
ResolvedMode(e) == Get(Lookup(BodyBefore, "aircons", AirconOf(e)), "mode", "heat")
Dispatches(e) == Len(call'[e].wire) > Len(call[e].wire)

(* C4: in a control operation the patched snapshot is in the cache before  *)
(* anything is dispatched (the step that writes it sends nothing and       *)
(* requests no poll), the command is dispatched while the operation waits  *)
(* in send_command, once and as the one message of the command, and a poll *)
(* is requested only by an operation whose send_command has returned with  *)
(* the message dispatched; an operation whose send_command raised requests *)
(* none.                                                                   *)
C4_PatchThenDispatchThenPoll ==
    [][\A e \in Entities :
        /\ Starts(e) =>
            /\ BodyAfter =
                 IF op'[e].kind = "set_temperature"
                 THEN TemperaturePatch(e, BodyBefore, ResolvedMode(e),
                                       op'[e].arg.temperature)
                 ELSE HvacPatch(e, BodyBefore, op'[e].arg.hvac_mode)
            /\ call'[e].wire = <<>>
            /\ refreshRequested' = refreshRequested
        /\ Dispatches(e) =>
            /\ op[e].pc = "sending" /\ op'[e] = op[e]
            /\ call'[e].wire = <<Message(call[e].command)>>
            /\ heap' = heap
            /\ refreshRequested' = refreshRequested
        /\ op'[e].pc = "settle" =>
            /\ call'[e].pc = "returned"
            /\ Len(call'[e].wire) = 1
        /\ (op[e].pc = "sending" /\ op'[e].pc = "idle") =>
            refreshRequested' = refreshRequested
        /\ (~refreshRequested /\ refreshRequested') =>
            \E f \in Entities : op[f].pc = "settle" /\ op'[f].pc = "idle"
    ]_vars

C4_Witness ==
    /\ refreshRequested
    /\ op[AirconId].pc = "idle"
    /\ op[AirconId].kind = "set_hvac_mode"
    /\ op[AirconId].arg = [hvac_mode |-> "cool"]
    /\ op[AirconId].ret = "None"

(* C5: once async_set_temperature has applied its patch with the owning    *)
(* aircon's mode resolved to heat or cool, target_temperature of the       *)
(* entity (aircon or zone) reads the value set, with no poll in between:   *)
(* int(temperature), which is the value itself when it is an integer.      *)
C5_TargetReadsPatchedValue ==
    [][\A e \in Entities :
        (Starts(e) /\ op'[e].kind = "set_temperature"
                   /\ ResolvedMode(e) \in {"heat", "cool"}) =>
            LET t == op'[e].arg.temperature
                read == target_temperature(e, heap'[data'])
            IN  /\ read.has
                /\ read.val = t \div 2
                /\ (t % 2 = 0 => 2 * read.val = t)
    ]_vars

C5_Witness ==
    /\ op[ZoneId].pc \in {"sending", "settle"}
    /\ op[ZoneId].kind = "set_temperature"
    /\ op[ZoneId].arg = [temperature |-> 44]
    /\ Get(Lookup(JsonLoads(heap[data].items.body), "aircons", AirconId),
           "mode", "heat") = "heat"
    /\ target_temperature(ZoneId, heap[data]) = Temp(22)

(* C6: when a poll cycle ends whose reply is valid, the cache holds        *)
(* exactly the snapshot of that reply, whatever was patched into the       *)
(* cache before, the last valid snapshot is that same object, and the      *)
(* update is marked successful.                                            *)
C6_ValidReplyReplacesCache ==
    [][(CycleEnds /\ call[PollTask].result.kind = "return"
                  /\ call[PollTask].result.value \in GoodResponses) =>
        LET reply == call[PollTask].result.value
        IN  /\ poll'.ret = "fresh"
            /\ data' # NoRef
            /\ heap'[data'].isDict
            /\ DOMAIN heap'[data'].items = DOMAIN reply.items
            /\ JsonLoads(heap'[data'].items.body) = JsonLoads(reply.items.body)
            /\ lastValid' = data'
            /\ lastUpdateSuccess'
    ]_vars

(* A cycle ended fresh while the aircon's operation, which patched isOn to *)
(* true and the mode to heat, is still under way: the patch is gone.       *)
C6_Witness ==
    /\ poll = [pc |-> "idle", ret |-> "fresh"]
    /\ op[AirconId].pc \in {"sending", "settle"}
    /\ op[AirconId].arg = [hvac_mode |-> "heat"]
    /\ Lookup(JsonLoads(heap[data].items.body), "aircons", AirconId).isOn = FALSE
    /\ Lookup(JsonLoads(heap[data].items.body), "aircons", AirconId).mode = "cool"
    /\ lastValid = data

(* C7: in every state last_update_success is false only if the last poll   *)
(* cycle failed with no valid snapshot cached; once a valid snapshot is    *)
(* cached the coordinator's data is that snapshot and the entities stay    *)
(* available, whatever happens to later cycles.                            *)
C7_UnavailableOnlyWithoutCache ==
    /\ ~lastUpdateSuccess => (poll.ret = "failed" /\ lastValid = NoRef)
    /\ lastValid # NoRef =>
        /\ lastUpdateSuccess
        /\ data = lastValid
        /\ ~NoData(heap[data])

C7_Witness ==
    /\ setupDone
    /\ poll = [pc |-> "idle", ret |-> "cached"]
    /\ pollsLeft = 0
    /\ lastUpdateSuccess
    /\ data = lastValid

C7_WitnessUnavailable ==
    /\ ~lastUpdateSuccess
    /\ poll.ret = "failed"

(* The commands of the protocol, as the hub is to receive them *)
PowerCommand(on) == [type |-> "SetAirconOnOff", airconId |-> AirconId, isOn |-> on]
ModeCommand(mode) == [type |-> "SetAirconMode", airconId |-> AirconId, mode |-> mode]
OpenCloseCommand(open) == [type |-> "SetZoneOpenClose", zoneId |-> ZoneId, isOpen |-> open]

(* The hub's name of a requested mode: the modes carry their own name but  *)
(* for FAN_ONLY, which the hub calls fan.                                  *)
HubMode(hvac) == IF hvac = "fan_only" THEN "fan" ELSE hvac

Without(rec, k) == [j \in DOMAIN rec \ {k} |-> rec[j]]
AirconBefore == Lookup(BodyBefore, "aircons", AirconId)
AirconAfter == Lookup(BodyAfter, "aircons", AirconId)
SetsHvacMode(e) == Starts(e) /\ op'[e].kind = "set_hvac_mode"

(* What async_set_hvac_mode of the aircon is to do for the modes in modes  *)
AirconModeStep(modes) ==
    /\ (SetsHvacMode(AirconId) /\ op'[AirconId].arg.hvac_mode \in modes) =>
        LET hvac == op'[AirconId].arg.hvac_mode
            sent == call'[AirconId].command.commands
        IN  IF hvac = "off"
            THEN /\ sent = <<PowerCommand(FALSE)>>
                 /\ AirconAfter.isOn = FALSE
                 /\ Without(AirconAfter, "isOn") = Without(AirconBefore, "isOn")
            ELSE /\ sent = <<PowerCommand(TRUE), ModeCommand(HubMode(hvac))>>
                 /\ AirconAfter.isOn = TRUE
                 /\ AirconAfter.mode = HubMode(hvac)
                 /\ Without(Without(AirconAfter, "isOn"), "mode")
                      = Without(Without(AirconBefore, "isOn"), "mode")
    /\ (Dispatches(AirconId) /\ op[AirconId].kind = "set_hvac_mode") =>
        call'[AirconId].wire = <<Message(call[AirconId].command)>>

(* C8: async_set_hvac_mode of an aircon, for every requested mode: OFF     *)
(* sends one message with the single command SetAirconOnOff(isOn=false),   *)
(* patches isOn to false and leaves the cached mode alone; any other mode  *)
(* sends one message with SetAirconOnOff(isOn=true) then                   *)
(* SetAirconMode(mode) and patches isOn to true and the cached mode to the *)
(* requested mode, the one the command carries.                            *)
C8_AirconModeCommands == [][AirconModeStep(HVACModes)]_vars

(* C8, for the modes an aircon entity declares (HEAT, COOL, DRY, FAN_ONLY, *)
(* OFF) the above holds.                                                   *)
C8_DeclaredModes == [][AirconModeStep(AirconModes)]_vars

(* AUTO was requested of the aircon: fan is what was sent and cached *)
C8_Witness ==
    /\ op[AirconId].pc = "settle"
    /\ op[AirconId].arg = [hvac_mode |-> "auto"]
    /\ call[AirconId].wire =
         <<Message([commands |-> <<PowerCommand(TRUE), ModeCommand("fan")>>])>>
    /\ Lookup(JsonLoads(heap[data].items.body), "aircons", AirconId).mode = "fan"

(* C9: async_set_hvac_mode of a zone: AUTO sends SetZoneOpenClose with     *)
(* isOpen true and patches the zone's isOn to true, OFF sends it with      *)
(* isOpen false and patches isOn to false; for any other mode the          *)
(* operation returns None having sent nothing, changed nothing in the      *)
(* cache and requested no poll.                                            *)
C9_ZoneAutoOffOnly ==
    [][/\ SetsHvacMode(ZoneId) =>
            LET hvac == op'[ZoneId].arg.hvac_mode
            IN  /\ hvac \in {"auto", "off"}
                /\ call'[ZoneId].command =
                     [commands |-> <<OpenCloseCommand(hvac = "auto")>>]
                /\ Lookup(BodyAfter, "zones", ZoneId).isOn = (hvac = "auto")
       /\ (Dispatches(ZoneId) /\ op[ZoneId].kind = "set_hvac_mode") =>
            call'[ZoneId].wire = <<Message(call[ZoneId].command)>>
       /\ (op[ZoneId].pc = "idle" /\ op'[ZoneId] # op[ZoneId]
             /\ op'[ZoneId].kind = "set_hvac_mode"
             /\ op'[ZoneId].arg.hvac_mode \notin {"auto", "off"}) =>
            /\ op'[ZoneId].pc = "idle"
            /\ op'[ZoneId].ret = "None"
            /\ call' = call
            /\ heap' = heap /\ data' = data /\ lastValid' = lastValid
            /\ refreshRequested' = refreshRequested
       /\ (opsLeft' # opsLeft /\ \A e \in Entities : op'[e].pc = op[e].pc) =>
            /\ call' = call
            /\ heap' = heap /\ data' = data /\ lastValid' = lastValid
            /\ refreshRequested' = refreshRequested
    ]_vars

C9_Witness ==
    /\ op[ZoneId].pc = "idle"
    /\ op[ZoneId].kind = "set_hvac_mode"
    /\ op[ZoneId].arg = [hvac_mode |-> "heat"]
    /\ op[ZoneId].ret = "None"
    /\ call[ZoneId] = IdleCall
    /\ ~refreshRequested

C9_WitnessAuto ==
    /\ op[ZoneId].pc = "settle"
    /\ op[ZoneId].arg = [hvac_mode |-> "auto"]
    /\ call[ZoneId].wire = <<Message([commands |-> <<OpenCloseCommand(TRUE)>>])>>

(* C10: every SetHvacMode(OFF) of the aircon issues the same single        *)
(* power-off command and leaves the cached isOn false; patching OFF again  *)
(* would change nothing, and the second of two OFF requests in a row, the  *)
(* cache still as the first left it, leaves the aircon's record as it was. *)
C10_OffTwiceIsOffOnce ==
    [][(SetsHvacMode(AirconId) /\ op'[AirconId].arg.hvac_mode = "off") =>
        /\ call'[AirconId].command = [commands |-> <<PowerCommand(FALSE)>>]
        /\ AirconAfter.isOn = FALSE
        /\ HvacPatch(AirconId, BodyAfter, "off") = BodyAfter
        /\ HvacCommand(AirconId, "off") = call'[AirconId].command
        /\ (/\ op[AirconId].kind = "set_hvac_mode"
            /\ op[AirconId].arg.hvac_mode = "off"
            /\ Get(AirconBefore, "isOn", TRUE) = FALSE) =>
                AirconAfter = AirconBefore
    ]_vars

C10_Witness ==
    /\ op[AirconId].pc \in {"sending", "settle"}
    /\ op[AirconId].kind = "set_hvac_mode"
    /\ op[AirconId].arg = [hvac_mode |-> "off"]
    /\ op[AirconId].prev = [hvac_mode |-> "off"]
    /\ Lookup(JsonLoads(heap[data].items.body), "aircons", AirconId).isOn = FALSE

(* The step in which entity e derives its state from the cached snapshot:  *)
(* its first state, a coordinator update, or its own optimistic write.     *)
Reads(e) ==
    \/ ~setupDone /\ setupDone'
    \/ setupDone /\ CycleEnds /\ poll'.ret # "failed"
    \/ Starts(e)
OwnRecordAfter(e) == Lookup(BodyAfter, Section(e), e)

(* What the derivation of e would resolve isOn to on a snapshot that       *)
(* carries none, its sticky value being l                                  *)
Remembered(e, l) == ResolvedIsOn(e, EmptyDict, l)

(* C11: for aircon and zone alike the resolved isOn is the snapshot's      *)
(* isOn when it carries one, the isOn last observed by the same derivation *)
(* when it carries none, false when none was ever observed.  By steps: a   *)
(* read that finds an isOn resolves to it and leaves it as the value to    *)
(* fall back on, true or false; a read that finds none resolves to the     *)
(* value to fall back on and keeps it; at first that value is false.       *)
C11_StickyIsOn ==
    [][\A e \in Entities :
        /\ (~setupDone /\ setupDone') => Remembered(e, NoneLk) = FALSE
        /\ Reads(e) =>
            IF Has(OwnRecordAfter(e), "isOn")
            THEN /\ ResolvedIsOn(e, BodyAfter, lk[e]) = OwnRecordAfter(e).isOn
                 /\ Remembered(e, lk'[e]) = OwnRecordAfter(e).isOn
            ELSE /\ ResolvedIsOn(e, BodyAfter, lk[e]) = Remembered(e, lk[e])
                 /\ Remembered(e, lk'[e]) = Remembered(e, lk[e])
    ]_vars

(* The aircon's last read found isOn false, and true is what it would fall *)
(* back on                                                                 *)
C11_Witness ==
    /\ setupDone
    /\ poll = [pc |-> "idle", ret |-> "fresh"]
    /\ op[AirconId].kind = "none"
    /\ Get(Lookup(JsonLoads(heap[data].items.body), "aircons", AirconId),
           "isOn", TRUE) = FALSE
    /\ Remembered(AirconId, lk[AirconId]) = TRUE

(* The cached body, and the entity's views of it *)
CachedBody == JsonLoads(heap[data].items.body)
CachedAircon == Lookup(CachedBody, "aircons", AirconId)
CachedZone == Lookup(CachedBody, "zones", ZoneId)

(* C12: the aircon's hvac_mode is OFF whenever the resolved isOn is false, *)
(* whatever the mode; with the resolved isOn true it is HEAT, COOL, DRY,   *)
(* FAN_ONLY for mode heat, cool, dry, fan, and OFF for a mode that is      *)
(* absent or none of these.                                                *)
C12_AirconHvacMode ==
    (data # NoRef /\ ~NoData(heap[data])) =>
        LET on == ResolvedIsOn(AirconId, CachedBody, lk[AirconId])
            mode == Get(CachedAircon, "mode", "absent")
            read == hvac_mode(AirconId, heap[data], lk[AirconId]).state
        IN  /\ ~on => read = "off"
            /\ on => read = IF mode = "heat" THEN "heat"
                            ELSE IF mode = "cool" THEN "cool"
                            ELSE IF mode = "dry" THEN "dry"
                            ELSE IF mode = "fan" THEN "fan_only"
                            ELSE "off"

(* The aircon is on by what it remembers, its mode is none the entity      *)
(* knows: OFF is read                                                      *)
C12_Witness ==
    /\ ~Has(CachedAircon, "isOn")
    /\ lk[AirconId] = Known(TRUE)
    /\ Get(CachedAircon, "mode", "absent") = "auto"
    /\ hvac_mode(AirconId, heap[data], lk[AirconId]).state = "off"

(* C13: target_temperature of an entity, zone or aircon, is its            *)
(* targetTemperatureHeat when the owning aircon's mode is heat or absent,  *)
(* its targetTemperatureCool when that mode is cool, and None when it is   *)
(* dry or fan; for a zone the mode is the aircon's, not the zone's         *)
(* airconMode.                                                             *)
C13_TargetByAirconMode ==
    (data # NoRef /\ ~NoData(heap[data])) =>
        \A e \in Entities :
            LET mode == Get(CachedAircon, "mode", "heat")
                own == Lookup(CachedBody, Section(e), e)
                read == target_temperature(e, heap[data])
            IN  /\ mode = "heat" => read = Temp(own.targetTemperatureHeat)
                /\ mode = "cool" => read = Temp(own.targetTemperatureCool)
                /\ mode \in {"dry", "fan"} => read = NoTemp

(* The aircon has no mode, the zone says airconMode cool: the zone's heat  *)
(* setpoint is read                                                        *)
C13_Witness ==
    /\ pollsLeft = 0 /\ opsLeft = 0 /\ op[ZoneId].kind = "none"
    /\ ~Has(CachedAircon, "mode")
    /\ CachedZone.airconMode = "cool"
    /\ CachedZone.targetTemperatureHeat # CachedZone.targetTemperatureCool
    /\ target_temperature(ZoneId, heap[data]) = Temp(CachedZone.targetTemperatureHeat)

(* C14: the zone's hvac_mode is OFF when the zone's isOn is false and AUTO *)
(* when it is true, whatever the aircon's isOn and mode are and whatever   *)
(* the entity has remembered.                                              *)
C14_ZoneHvacMode ==
    (data # NoRef /\ ~NoData(heap[data]) /\ Has(CachedZone, "isOn")) =>
        \A l \in LastKnowns \cup {lk[ZoneId]} :
            hvac_mode(ZoneId, heap[data], l).state =
                IF CachedZone.isOn THEN "auto" ELSE "off"

(* The zone is closed, the aircon on, true remembered: OFF is read *)
C14_Witness ==
    /\ pollsLeft = 0 /\ opsLeft = 0 /\ op[ZoneId].kind = "none"
    /\ Get(CachedZone, "isOn", TRUE) = FALSE
    /\ Get(CachedAircon, "isOn", FALSE) = TRUE
    /\ Get(CachedAircon, "mode", "absent") = "heat"
    /\ lk[ZoneId] = Known(TRUE)
    /\ hvac_mode(ZoneId, heap[data], lk[ZoneId]).state = "off"

(* C15: async_set_temperature called without a temperature does nothing:   *)
(* it returns None, no command is built or sent, the cached snapshot and   *)
(* every _last_known_is_on stay as they are, and no settle delay and no    *)
(* poll request follow.                                                    *)
C15_MissingTemperatureIsNoOp ==
    [][\A e \in Entities :
        (/\ op[e].pc = "idle" /\ op'[e] # op[e]
         /\ op'[e].kind = "set_temperature"
         /\ ~Has(op'[e].arg, "temperature")) =>
            /\ op'[e].pc = "idle"
            /\ op'[e].ret = "None"
            /\ call' = call
            /\ heap' = heap /\ data' = data /\ lastValid' = lastValid
            /\ lk' = lk
            /\ refreshRequested' = refreshRequested
    ]_vars

C15_Witness ==
    \E e \in Entities :
        /\ op[e].pc = "idle"
        /\ op[e].kind = "set_temperature"
        /\ op[e].arg = EmptyDict
        /\ op[e].ret = "None"
        /\ call[e] = IdleCall

Setpoints(rec) ==
    { rec[k] : k \in DOMAIN rec \cap {"targetTemperatureHeat", "targetTemperatureCool"} }

(* C16: with a hub that reports setpoints within [16, 30] only, every      *)
(* targetTemperatureHeat and targetTemperatureCool in the cached snapshot  *)
(* is within [16, 30], whatever polls and async_set_temperature calls      *)
(* there were: a value outside the range never reaches the cache.          *)
C16_SetpointsInRange ==
    (data # NoRef /\ ~NoData(heap[data])) =>
        \A v \in Setpoints(CachedAircon) \cup Setpoints(CachedZone) :
            _attr_min_temp <= v /\ v <= _attr_max_temp

(* 31 was set on the zone: it is in the cache and on its way to the hub *)
C16_Witness ==
    /\ op[ZoneId].pc = "settle"
    /\ op[ZoneId].arg = [temperature |-> 62]
    /\ 31 \in Setpoints(CachedZone)
    /\ Len(call[ZoneId].wire) = 1
    /\ call[ZoneId].command.commands[1].temperature = 31

(* C17: a call with await_response false never waits for a reply and ends *)
(* with the first send that succeeds: when it has returned, it returned    *)
(* the Ack and its message went out exactly once; when it has raised       *)
(* HomeAssistantError, after three failed attempts, its message went out   *)
(* not at all; no attempt follows a send that succeeded.                   *)
C17_FireAndForget ==
    [][\A t \in Tasks :
        (~call[t].await_response /\ ~call'[t].await_response) =>
            /\ call'[t].pc # "recv"
            /\ call'[t].pc = "returned" =>
                 /\ call'[t].result.value = Ack
                 /\ call'[t].wire = <<Message(call'[t].command)>>
            /\ (call'[t].pc = "raised"
                  /\ call'[t].result.err = "HomeAssistantError") =>
                 call'[t].wire = <<>>
            /\ (call[t].pc = "send" /\ OkStep(t)) =>
                 /\ call'[t].pc = "returned"
                 /\ call'[t].attempt = call[t].attempt
            /\ call'[t].wire # <<>> => call'[t].pc = "returned"
    ]_vars

C17_Witness ==
    \E t \in Tasks :
        /\ ~call[t].await_response
        /\ call[t].pc = "returned"
        /\ call[t].attempt = 3
        /\ call[t].result.value = Ack
        /\ Len(call[t].wire) = 1

C17_WitnessRaised ==
    \E t \in Tasks :
        /\ ~call[t].await_response
        /\ call[t].command # NoCommand
        /\ call[t].pc = "raised"
        /\ call[t].result.err = "HomeAssistantError"
        /\ call[t].wire = <<>>

(* C18: a control operation that has published its patch requests a poll   *)
(* once the send and the settle delay are over, however the transport's    *)
(* attempts went: it does not end without having requested it.             *)
C18_PatchedOperationRequestsPoll ==
    [][\A e \in Entities :
        (op[e].pc \in {"sending", "settle"} /\ op'[e].pc = "idle") =>
            /\ op[e].pc = "settle"
            /\ refreshRequested'
    ]_vars

(* The aircon's operation is over, its patch in the cache, its send_command *)
(* having raised after three attempts: no poll was requested               *)
C18_Witness ==
    /\ op[AirconId].pc = "idle"
    /\ op[AirconId].arg = [hvac_mode |-> "cool"]
    /\ op[AirconId].ret = "HomeAssistantError"
    /\ Get(CachedAircon, "mode", "absent") = "cool"
    /\ ~refreshRequested
    /\ op[ZoneId].kind = "none"

(* C19: on a fair event loop every poll cycle terminates, with a snapshot  *)
(* (fresh or cached) or an update failure, after at most 3 attempts and at *)
(* most 2 backoff sleeps (one after attempt 1, one after attempt 2).       *)
C19_CycleTerminates ==
    /\ [](/\ call[PollTask].attempt <= 3
          /\ call[PollTask].pc = "backoff" => call[PollTask].attempt <= 2
          /\ poll.pc = "idle" => poll.ret \in {"none", "fresh", "cached", "failed"})
    /\ (poll.pc = "fetch" ~> (poll.pc = "idle" /\ poll.ret # "none"))

(* The first cycle is over, an update failure, all three attempts having   *)
(* failed                                                                  *)
C19_Witness ==
    /\ poll = [pc |-> "idle", ret |-> "failed"]
    /\ pollsLeft = MaxPolls - 1
    /\ faultsLeft = MaxFaults - 3
    /\ ~lastUpdateSuccess

OwnRecordBefore(e) == Lookup(BodyBefore, Section(e), e)
HeatCommands == {"SetZoneHeatTemperature", "SetAirconHeatTemperature"}
CoolCommands == {"SetZoneCoolTemperature", "SetAirconCoolTemperature"}

(* What async_set_temperature is to do when the owning aircon's mode       *)
(* resolves to one of modes: the command is the heat or the cool one of    *)
(* the entity's kind, carries the entity's id and int(temperature), and    *)
(* the setpoint it names, no other, is patched to the value it carries.    *)
TemperatureStep(modes) ==
    \A e \in Entities :
        (Starts(e) /\ op'[e].kind = "set_temperature"
                   /\ Get(Lookup(BodyBefore, "aircons", AirconOf(e)),
                          "mode", "absent") \in modes) =>
            LET sent == call'[e].command.commands
                cmd == sent[1]
                before == OwnRecordBefore(e)
                after == OwnRecordAfter(e)
            IN  /\ Len(sent) = 1
                /\ cmd.type \in HeatCommands \cup CoolCommands
                /\ cmd.type \in {"SetZoneHeatTemperature", "SetZoneCoolTemperature"}
                     <=> IsZone(e)
                /\ IF IsZone(e) THEN cmd.zoneId = e ELSE cmd.airconId = e
                /\ cmd.temperature = op'[e].arg.temperature \div 2
                /\ cmd.type \in HeatCommands =>
                     /\ after.targetTemperatureHeat = cmd.temperature
                     /\ Without(after, "targetTemperatureHeat")
                          = Without(before, "targetTemperatureHeat")
                /\ cmd.type \in CoolCommands =>
                     /\ after.targetTemperatureCool = cmd.temperature
                     /\ Without(after, "targetTemperatureCool")
                          = Without(before, "targetTemperatureCool")

(* C20: for async_set_temperature on a zone or an aircon and every mode    *)
(* the owning aircon can resolve to (heat, cool, dry, fan, absent), the    *)
(* setpoint patched is the one the command names: a heat command goes with *)
(* targetTemperatureHeat patched, a cool command with                      *)
(* targetTemperatureCool patched, and the command carries the entity's id  *)
(* and the integer that was patched.                                       *)
C20_PatchFollowsCommand ==
    [][TemperatureStep({"heat", "cool", "dry", "fan", "absent"})]_vars

(* C20, for the modes heat, cool and absent the above holds *)
C20_HeatCoolOrAbsent == [][TemperatureStep({"heat", "cool", "absent"})]_vars

(* The aircon is in mode dry, 22 was set on it: a cool command is out, the *)
(* cool setpoint is what it was                                            *)
C20_Witness ==
    /\ op[AirconId].pc = "settle"
    /\ op[AirconId].arg = [temperature |-> 44]
    /\ Get(CachedAircon, "mode", "absent") = "dry"
    /\ call[AirconId].wire =
         <<Message([commands |-> <<[type |-> "SetAirconCoolTemperature",
                                    airconId |-> AirconId,
                                    temperature |-> 22]>>])>>
    /\ CachedAircon.targetTemperatureCool = 24

(* An operation between its patch and its refresh request, and the reply   *)
(* the poll cycle's send_command has returned                              *)
InFlight(e) == op[e].pc \in {"sending", "settle"}
Reply == call[PollTask].result.value
ReplyIsValid == call[PollTask].result.kind = "return" /\ Reply \in GoodResponses

(* C21: the poller neither waits for an operation in flight nor merges its *)
(* patch: a cycle that ends with a valid reply while an operation is       *)
(* between its patch and its refresh request replaces the cache with the   *)
(* reply, the entity's record becomes the hub's, and the operation goes on *)
(* as it was.  The race is the reachable state of C21_Witness.             *)
C21_PollOverwritesPatchInFlight ==
    [][\A e \in Entities :
        (CycleEnds /\ InFlight(e) /\ ReplyIsValid) =>
            /\ poll'.ret = "fresh"
            /\ OwnRecordAfter(e) =
                 Lookup(JsonLoads(Reply.items.body), Section(e), e)
            /\ op'[e] = op[e]
            /\ call'[e] = call[e]
    ]_vars

(* The zone's operation has patched isOn to false and its command has not  *)
(* reached the hub; the cycle that started before has ended and the cache  *)
(* shows the zone on.                                                      *)
C21_Witness ==
    /\ op[ZoneId].pc = "sending"
    /\ op[ZoneId].kind = "set_hvac_mode"
    /\ op[ZoneId].arg = [hvac_mode |-> "off"]
    /\ call[ZoneId].wire = <<>>
    /\ poll = [pc |-> "idle", ret |-> "fresh"]
    /\ pollsLeft = 0
    /\ Get(CachedZone, "isOn", FALSE) = TRUE

(* The step in which the cycle's call gets a reply that is a data error:   *)
(* receive_json raises ValueError on text that is no JSON, or returns a    *)
(* reply that is no dict, has no body, a body that does not deserialize,   *)
(* or one without aircons or zones.  And a call that ended that way.       *)
EndedInDataError(c) ==
    \/ c.result.kind = "return" /\ c.result.value \in BadResponses
    \/ c.result.err = "ValueError"
DataErrorStep ==
    /\ call[PollTask].pc = "recv"
    /\ call'[PollTask] # call[PollTask]
    /\ EndedInDataError(call'[PollTask]) \/ call'[PollTask].err = "ValueError"

(* C22: a data error ends the cycle's call in the step that receives it,   *)
(* with no further attempt: exactly one attempt when no transport error    *)
(* came before it; the poller then treats the cycle as a failed fetch      *)
(* (cached snapshot or update failure, nothing stored).  The attempt       *)
(* number grows only after the backoff that follows a connection error, a  *)
(* malformed-message error or a timeout.                                   *)
C22_DataErrorsNotRetried ==
    [][LET c == call[PollTask]
           d == call'[PollTask]
       IN  /\ DataErrorStep =>
                /\ Over(d)
                /\ d.attempt = c.attempt
                /\ faultsLeft = MaxFaults => d.attempt = 1
           /\ (d.attempt > c.attempt /\ c.attempt > 0) =>
                /\ c.pc = "backoff"
                /\ c.err \in {"ClientError", "WSMessageTypeError", "TimeoutError"}
           /\ (CycleEnds /\ EndedInDataError(c)) =>
                /\ poll'.ret \in {"cached", "failed"}
                /\ heap' = heap
                /\ lastValid' = lastValid
    ]_vars

(* The first cycle has failed on a link that raised nothing: its call got  *)
(* a reply at its first attempt, and the reply was a data error.           *)
C22_Witness ==
    /\ poll = [pc |-> "idle", ret |-> "failed"]
    /\ faultsLeft = MaxFaults
    /\ ~lastUpdateSuccess
    /\ data = NoRef

(* A snapshot the cache may hold: a dict whose body deserializes to a      *)
(* structure with a non-empty aircons and a non-empty zones mapping        *)
WellFormed(d) ==
    /\ d.isDict
    /\ Has(d.items, "body")
    /\ IsJsonText(d.items.body)
    /\ LET body == JsonLoads(d.items.body)
       IN  /\ Has(body, "aircons") /\ Truthy(body.aircons)
           /\ Has(body, "zones") /\ Truthy(body.zones)

ReplyAircon == Lookup(JsonLoads(Reply.items.body), "aircons", AirconId)
AirconShows == hvac_mode(AirconId, heap'[data'], lk[AirconId]).state

C24_WitnessOn ==
    /\ poll = [pc |-> "idle", ret |-> "fresh"]
    /\ pollsLeft = 0
    /\ op[AirconId].kind = "set_hvac_mode"
    /\ op[AirconId].arg = [hvac_mode |-> "heat"]
    /\ ~Has(CachedAircon, "isOn")
    /\ lk[AirconId] = Known(TRUE)
    /\ hvac_mode(AirconId, heap[data], lk[AirconId]).state = "dry"

(* How the last finished cycle ended: with a snapshot to show, or not *)
Succeeded(p) == p.ret \in {"fresh", "cached"}

(* C25: once a cycle has succeeded every later cycle succeeds, with the    *)
(* reply or with the cached snapshot, and last_update_success stays true   *)
(* whatever the transport and the hub do; the snapshot kept as last valid  *)
(* is never dropped; a cycle reports an update failure only when no cycle  *)
(* before it has succeeded and nothing is cached.                          *)
C25_AvailabilityMonotonic ==
    [][/\ Succeeded(poll) => (Succeeded(poll') /\ lastUpdateSuccess')
       /\ lastValid # NoRef => (lastValid' # NoRef /\ lastUpdateSuccess')
       /\ (CycleEnds /\ poll'.ret = "failed") =>
            /\ ~Succeeded(poll)
            /\ data = NoRef
            /\ lastValid = NoRef
    ]_vars

(* The first cycle succeeded; the link then raised all it could and the    *)
(* second cycle still ended with the cached snapshot, the entities staying *)
(* available.                                                              *)
C25_Witness ==
    /\ poll = [pc |-> "idle", ret |-> "cached"]
    /\ pollsLeft = 0
    /\ faultsLeft = 0
    /\ lastUpdateSuccess
    /\ setupDone
    /\ op[AirconId].kind = "none"
    /\ op[ZoneId].kind = "none"

(* C26: from the first successful cycle on, _last_valid_data and the       *)
(* coordinator's data are one object: the step in which an operation       *)
(* patches the cache patches the last valid snapshot with it, and a cycle  *)
(* that falls back returns the cache as it is, every patch applied since   *)
(* the last valid reply included.                                          *)
C26_LastValidIsTheCache ==
    [][/\ lastValid' # NoRef =>
            /\ data' = lastValid'
            /\ Deref(heap', lastValid') = Deref(heap', data')
       /\ \A e \in Entities : Starts(e) =>
            /\ lastValid' = lastValid
            /\ JsonLoads(heap'[lastValid'].items.body) = BodyAfter
            /\ Lookup(JsonLoads(heap'[lastValid'].items.body), Section(e), e)
                 = OwnRecordAfter(e)
       /\ (CycleEnds /\ poll'.ret = "cached") =>
            /\ data' = data
            /\ Deref(heap', data') = Deref(heap, data)
    ]_vars

(* The zone's operation set 31 degrees and asked for a refresh; the cycle  *)
(* that followed fell back, and what it returned holds the 31.             *)
C26_Witness ==
    /\ poll = [pc |-> "idle", ret |-> "cached"]
    /\ pollsLeft = 0
    /\ ~refreshRequested
    /\ op[ZoneId].pc = "idle"
    /\ op[ZoneId].kind = "set_temperature"
    /\ op[ZoneId].arg = [temperature |-> 62]
    /\ op[ZoneId].ret = "None"
    /\ data = lastValid
    /\ 31 \in Setpoints(Lookup(JsonLoads(heap[lastValid].items.body), "zones", ZoneId))

(* The keys of its record an operation may write *)
PatchedKeys(o) ==
    IF o.kind = "set_temperature"
    THEN {"targetTemperatureHeat", "targetTemperatureCool"}
    ELSE {"isOn", "mode"}

(* C27: the step in which an operation patches the cache reads the cache   *)
(* as it is then, the patches of the operations under way included, and    *)
(* writes it back with its own keys of its own record changed and nothing  *)
(* else: the record of the other entity and the other keys of its own      *)
(* record are as they were, and its own patch is there.  So with two       *)
(* operations interleaved at their suspension points the cache holds both  *)
(* patches.                                                                *)
C27_NoLostUpdate ==
    [][\A e \in Entities : Starts(e) =>
        LET before == OwnRecordBefore(e)
            after == OwnRecordAfter(e)
        IN  /\ DOMAIN BodyAfter = DOMAIN BodyBefore
            /\ \A sec \in DOMAIN BodyBefore :
                  DOMAIN BodyAfter[sec] = DOMAIN BodyBefore[sec]
            /\ \A f \in Entities \ {e} :
                  Lookup(BodyAfter, Section(f), f) = Lookup(BodyBefore, Section(f), f)
            /\ \A k \in DOMAIN before \ PatchedKeys(op'[e]) :
                  Has(after, k) /\ after[k] = before[k]
            /\ IF op'[e].kind = "set_hvac_mode"
               THEN /\ Has(after, "isOn")
                    /\ after.isOn = IF IsZone(e)
                                    THEN op'[e].arg.hvac_mode = "auto"
                                    ELSE op'[e].arg.hvac_mode # "off"
               ELSE /\ ResolvedMode(e) = "heat" =>
                        after.targetTemperatureHeat = op'[e].arg.temperature \div 2
                    /\ ResolvedMode(e) = "cool" =>
                        after.targetTemperatureCool = op'[e].arg.temperature \div 2
    ]_vars

(* Both operations are suspended in send_command with nothing sent yet:    *)
(* the aircon's has switched it on in mode cool, the zone's has set 31     *)
(* degrees, and the cache shows both.                                      *)
C27_Witness ==
    /\ op[AirconId].pc = "sending"
    /\ op[AirconId].kind = "set_hvac_mode"
    /\ op[AirconId].arg = [hvac_mode |-> "cool"]
    /\ op[ZoneId].pc = "sending"
    /\ op[ZoneId].kind = "set_temperature"
    /\ op[ZoneId].arg = [temperature |-> 62]
    /\ call[AirconId].wire = <<>>
    /\ call[ZoneId].wire = <<>>
    /\ CachedAircon.isOn = TRUE
    /\ CachedAircon.mode = "cool"
    /\ CachedZone.targetTemperatureCool = 31
    /\ CachedZone.targetTemperatureHeat = 20

(* What the aircon's climate entity and the aircon's state sensor show on  *)
(* the cached snapshot, each with its own _last_known_is_on                *)
ClimateIsOff == hvac_mode(AirconId, heap[data], lk[AirconId]).state = "off"
SensorIsOff == state(heap[data], lk[StateSensor]).state = "off"
HubModes == {"heat", "cool", "dry", "fan"}

(* C28: on every cached snapshot whose aircon mode is heat, cool, dry or   *)
(* fan the climate entity shows OFF exactly when the state sensor shows    *)
(* off, also when the snapshot has no isOn and each falls back on its own  *)
(* _last_known_is_on.                                                      *)
C28_ClimateAndSensorAgree ==
    (/\ setupDone
     /\ data # NoRef
     /\ Get(CachedAircon, "mode", "missing") \in HubModes) =>
        (ClimateIsOff <=> SensorIsOff)

(* C28, for the snapshots that report isOn: there the two agree *)
C28_AgreeWhenReported ==
    (/\ setupDone
     /\ data # NoRef
     /\ Get(CachedAircon, "mode", "missing") \in HubModes
     /\ Has(CachedAircon, "isOn")) =>
        (ClimateIsOff <=> SensorIsOff)

(* The aircon was seen on, was switched off by async_set_hvac_mode, and    *)
(* the next snapshot has mode dry and no isOn: the climate entity shows    *)
(* OFF, the sensor on.                                                     *)
C28_Witness ==
    /\ setupDone
    /\ poll = [pc |-> "idle", ret |-> "fresh"]
    /\ op[AirconId].kind = "set_hvac_mode"
    /\ op[AirconId].arg = [hvac_mode |-> "off"]
    /\ ~Has(CachedAircon, "isOn")
    /\ CachedAircon.mode = "dry"
    /\ lk[AirconId] = Known(FALSE)
    /\ lk[StateSensor] = Known(TRUE)
    /\ ClimateIsOff
    /\ ~SensorIsOff

====
